---- MODULE Spec2Model ----
(***************************************************************************)
(* hugegmaps.py: create_map drives a browser over a rows x cols grid of    *)
(* map positions, grabs one screen region per cell, scales it, stitches    *)
(* the tiles into one image and saves it.                                  *)
(*                                                                         *)
(* Numbers.  Offsets and hidden fractions are the exact fractions k/OffDen.*)
(* A latitude is an integer count of 10^-10/OffDen degrees, a longitude an *)
(* integer count of 10^-8/OffDen degrees, so that the two shift formulas   *)
(* are computed exactly.  A scale is the fraction <<num, den>>.            *)
(* Strings (paths) are sequences of one-character strings.                 *)
(***************************************************************************)
EXTENDS Integers, Sequences, FiniteSets, TLC

VARIABLES
    pc,        \* position of create_map (or of the function being applied)
    args,      \* the arguments of create_map
    fs,        \* the paths that exist on disk when create_map is called
    writable,  \* the directories os.access(.., W_OK) accepts
    clock,     \* what datetime.now().strftime(..) yields at line 104
    driver,    \* the browser session: "none", "open", "closed", "quit"
    screen,    \* <<screen_width, screen_height>>
    shift,     \* <<lat_shift, long_shift>>
    images,    \* the 2D grid of tiles
    row, col,  \* the loop variables of lines 66-67
    image,     \* the local `image` of line 92
    final,     \* the result of combine_images
    written,   \* the files final.save has created or overwritten
    trace,     \* the calls made to the browser and the screen, in order
    err,       \* the exception that ended create_map, if any
    call       \* a pure function's application: its input and its result

vars == <<pc, args, fs, writable, clock, driver, screen, shift, images, row,
          col, image, final, written, trace, err, call>>

-----------------------------------------------------------------------------
(* Bounds of the model *)

MaxCells == 6      \* number_rows * number_cols <= MaxCells
OffDen == 4        \* offsets are k/OffDen
MaxExtent == 6     \* screen widths and heights given to the functions
MaxTile == 2       \* tile widths and heights given to combine_images

-----------------------------------------------------------------------------
(* Values *)

None == [none |-> TRUE]
NoPath == <<"None">>      \* outfile=None
NoErr == [stage |-> "none", kind |-> "none"]
NoCall == [fn |-> "none"]

Max(a, b) == IF a >= b THEN a ELSE b

\* Python's int() on the fraction n/d: truncation toward zero
PyInt(n, d) == IF n >= 0 THEN n \div d ELSE -((-n) \div d)

\* Python 3's round() on the fraction n/d, n >= 0: half to even
PyRound(n, d) ==
    LET q == n \div d
        r == n % d
    IN  IF 2 * r < d THEN q
        ELSE IF 2 * r > d THEN q + 1
        ELSE IF q % 2 = 0 THEN q ELSE q + 1

-----------------------------------------------------------------------------
(* Strings and the file system *)

UpperOf == [c \in {"a", "d", "t", "1", ".", "/", "p", "n", "g", "j",
                   "P", "N", "G"} |->
              CASE c = "p" -> "P" [] c = "n" -> "N" [] c = "g" -> "G"
                [] c = "a" -> "A" [] c = "d" -> "D" [] c = "t" -> "T"
                [] c = "j" -> "J" [] OTHER -> c]

\* str.upper()
Upper(s) == [i \in 1..Len(s) |-> UpperOf[s[i]]]

\* str.endswith(suffix)
EndsWith(s, suffix) ==
    /\ Len(s) >= Len(suffix)
    /\ SubSeq(s, Len(s) - Len(suffix) + 1, Len(s)) = suffix

\* os.path.dirname(os.path.abspath(path)): the text before the last "/",
\* the empty text standing for the current working directory
Dirname(path) ==
    LET slashes == {i \in 1..Len(path) : path[i] = "/"}
    IN  IF slashes = {} THEN <<>>
        ELSE SubSeq(path, 1, (CHOOSE i \in slashes :
                                 \A j \in slashes : j <= i) - 1)

Cwd == <<>>
DirD == <<"d">>

\* 'testimg-{}.png'.format(timestamp); "t" stands for the prefix testimg-
Synthesized(timestamp) == <<"t">> \o timestamp \o <<".", "p", "n", "g">>

Timestamps == {<<"1">>}

OutfileChoices ==
    { NoPath,
      <<>>,
      <<"a", ".", "p", "n", "g">>,
      <<"a", ".", "P", "n", "g">>,
      <<"a", ".", "j", "p", "g">>,
      <<"p", "n", "g">>,
      <<"d", "/", "a", ".", "p", "n", "g">> }

FsChoices ==
    { {},
      {<<"a", ".", "p", "n", "g">>, <<"a", ".", "P", "n", "g">>,
       <<"d", "/", "a", ".", "p", "n", "g">>},
      {Synthesized(<<"1">>)} }

WritableChoices == { {Cwd, DirD}, {Cwd}, {DirD} }

\* `if outfile:` -- None and the empty string are falsy
Truthy(path) == path # NoPath /\ path # <<>>

-----------------------------------------------------------------------------
(* calc_latitude_shift, calc_longitude_shift *)

LatCoef == 2051       \* 0.000002051, in units of 10^-9
LatZoom == 21         \* 2.1, in tenths
LongCoef == 268       \* 0.00000268, in units of 10^-8
LongZoom == 2

\* -0.000002051 * screen_height * (1 - percent_hidden) * 2.1,
\* percent_hidden = hidden/OffDen, result in units of 10^-10/OffDen
calc_latitude_shift_flipped(screen_height, hidden) ==
    LatCoef * screen_height * (OffDen - hidden) * LatZoom

calc_latitude_shift(screen_height, hidden) ==
    -(LatCoef * screen_height * (OffDen - hidden) * LatZoom)

\* 0.00000268 * screen_width * (1 - percent_hidden) * 2,
\* result in units of 10^-8/OffDen
calc_longitude_shift(screen_width, hidden) ==
    LongCoef * screen_width * (OffDen - hidden) * LongZoom

-----------------------------------------------------------------------------
(* screenshot: the box handed to pyscreenshot.grab *)

\* lines 135-136 without "+ screen_width", "+ screen_height"
BBoxNoComplement(screen_width, screen_height, l, t, r, b) ==
    << PyInt(l * screen_width, OffDen),
       PyInt(t * screen_height, OffDen),
       PyInt(r * screen_width, OffDen),
       PyInt(b * screen_height, OffDen) >>

\* lines 133-138, offsets in 1/OffDen

BBox(screen_width, screen_height, l, t, r, b) ==
    << PyInt(l * screen_width, OffDen),
       PyInt(t * screen_height, OffDen),
       PyInt(r * (-screen_width) + OffDen * screen_width, OffDen),
       PyInt(b * (-screen_height) + OffDen * screen_height, OffDen) >>

Degenerate(box) == box[1] >= box[3] \/ box[2] >= box[4]

\* the image a grab of `box` returns when it returns one
Grabbed(box) == [width |-> Max(box[3] - box[1], 0),
                 height |-> Max(box[4] - box[2], 0)]

-----------------------------------------------------------------------------
(* scale_image *)

\* Image.thumbnail(size) of PIL: shrink in place to fit `size`, keeping the
\* aspect ratio, never enlarging (the algorithm of the PIL releases
\* contemporary with the program)
Thumbnail(im, size) ==
    LET x0 == im.width
        y0 == im.height
        y1 == IF x0 > size[1] THEN Max((y0 * size[1]) \div x0, 1) ELSE y0
        x1 == IF x0 > size[1] THEN size[1] ELSE x0
        x2 == IF y1 > size[2] THEN Max((x1 * size[2]) \div y1, 1) ELSE x1
        y2 == IF y1 > size[2] THEN size[2] ELSE y1
    IN  [width |-> x2, height |-> y2]

\* lines 144-147; scale = <<num, den>>
scale_image(im, scale) ==
    LET width == PyRound(im.width * scale[1], scale[2])
        height == PyRound(im.height * scale[1], scale[2])
    IN  Thumbnail(im, <<width, height>>)

Empty(im) == im.width = 0 \/ im.height = 0

-----------------------------------------------------------------------------
(* combine_images *)

Rows(grid) == Cardinality(DOMAIN grid)          \* len(images)
Cols(grid) == Cardinality(DOMAIN grid[0])       \* len(images[0])

Blank == [r |-> -1, c |-> -1, x |-> -1, y |-> -1]

\* Image.new('RGB', newsize)
NewImage(newsize) ==
    [width |-> newsize[1], height |-> newsize[2],
     px |-> [p \in (0..newsize[1] - 1) \X (0..newsize[2] - 1) |-> Blank]]

\* newimage.paste(image, location): the pixels of the tile, named by the
\* tile's grid index and their place in it, clipped to the canvas
Paste(canvas, im, r, c, location) ==
    [canvas EXCEPT !.px =
        [p \in DOMAIN canvas.px |->
            IF /\ location[1] <= p[1] /\ p[1] < location[1] + im.width
               /\ location[2] <= p[2] /\ p[2] < location[2] + im.height
            THEN [r |-> r, c |-> c,
                  x |-> p[1] - location[1], y |-> p[2] - location[2]]
            ELSE canvas.px[p]]]

\* line 164 with rowindex and colindex exchanged
LocationTransposed(rowindex, colindex, imgwidth, imgheight) ==
    <<rowindex * imgwidth, colindex * imgheight>>

\* line 164
Location(rowindex, colindex, imgwidth, imgheight) ==
    <<colindex * imgwidth, rowindex * imgheight>>

\* lines 162-165: the tiles k, k+1, ... in row-major order
RECURSIVE PasteFrom(_, _, _, _, _)
PasteFrom(canvas, grid, k, imgwidth, imgheight) ==
    IF k >= Rows(grid) * Cols(grid) THEN canvas
    ELSE LET rowindex == k \div Cols(grid)
             colindex == k % Cols(grid)
         IN  PasteFrom(Paste(canvas, grid[rowindex][colindex],
                             rowindex, colindex,
                             Location(rowindex, colindex, imgwidth, imgheight)),
                       grid, k + 1, imgwidth, imgheight)

\* lines 156-167
combine_images(grid) ==
    LET imgwidth == grid[0][0].width
        imgheight == grid[0][0].height
        newsize == <<imgwidth * Cols(grid), imgheight * Rows(grid)>>
    IN  PasteFrom(NewImage(newsize), grid, 0, imgwidth, imgheight)

-----------------------------------------------------------------------------
(* create_map: inputs *)

GridChoices ==
    {g \in (1..MaxCells) \X (1..MaxCells) : g[1] * g[2] <= MaxCells}

\* <<offset_left, offset_top, offset_right, offset_bottom>>, in 1/OffDen;
\* the last one has offset_left + offset_right = 1
OffsetChoices == { <<0, 0, 0, 0>>, <<1, 0, 1, 0>>, <<OffDen - 1, 0, 1, 0>> }

ScaleChoices == { <<1, 1>>, <<1, 2>> }

StartChoices == { <<170000000, 80000>> }

\* what get_screen_resolution can return
Screens == { <<4, 2>>, <<2, 4>> }

ArgChoices ==
    { [lat_start |-> st[1], long_start |-> st[2],
       number_rows |-> g[1], number_cols |-> g[2],
       scale |-> sc,
       offset_left |-> o[1], offset_top |-> o[2],
       offset_right |-> o[3], offset_bottom |-> o[4],
       outfile |-> f] :
      st \in StartChoices, g \in GridChoices, sc \in ScaleChoices,
      o \in OffsetChoices, f \in OutfileChoices }

Init ==
    /\ pc = "validate"
    /\ args \in ArgChoices
    /\ fs \in FsChoices
    /\ writable \in WritableChoices
    /\ clock \in Timestamps
    /\ driver = "none"
    /\ screen = <<0, 0>>
    /\ shift = <<0, 0>>
    /\ images = <<>>
    /\ row = 0
    /\ col = 0
    /\ image = None
    /\ final = None
    /\ written = {}
    /\ trace = <<>>
    /\ err = NoErr
    /\ call = NoCall

-----------------------------------------------------------------------------
(* create_map: steps *)

\* the exception is caught and the run still goes on to save
RaiseThenSave(stage, kind) ==
    /\ pc' = "save"
    /\ err' = [stage |-> stage, kind |-> kind]

\* create_map has no try/except/finally: an exception raised anywhere ends it
Raise(stage, kind) ==
    /\ pc' = "failed"
    /\ err' = [stage |-> stage, kind |-> kind]

\* lines 48-50 without the os.path.exists assertion
OutfileAcceptedNoExists(path) ==
    /\ Dirname(path) \in writable
    /\ EndsWith(Upper(path), <<".", "P", "N", "G">>)

\* the three assertions of lines 48-50
OutfileAccepted(path) ==
    /\ path \notin fs
    /\ Dirname(path) \in writable
    /\ EndsWith(Upper(path), <<".", "P", "N", "G">>)

\* lines 46-50
Validate ==
    /\ pc = "validate"
    /\ IF Truthy(args.outfile) /\ ~OutfileAccepted(args.outfile)
       THEN Raise("validate", "AssertionError")
       ELSE pc' = "launch" /\ err' = err
    /\ UNCHANGED <<args, fs, writable, clock, driver, screen, shift, images,
                   row, col, image, final, written, trace, call>>

\* line 53: webdriver.Chrome()
Launch ==
    /\ pc = "launch"
    /\ \/ driver' = "open" /\ pc' = "maximize" /\ err' = err
       \/ driver' = driver /\ Raise("launch", "WebDriverException")
    /\ UNCHANGED <<args, fs, writable, clock, screen, shift, images,
                   row, col, image, final, written, trace, call>>

\* line 54: driver.maximize_window()
Maximize ==
    /\ pc = "maximize"
    /\ \/ pc' = "setup" /\ err' = err
       \/ Raise("maximize", "WebDriverException")
    /\ UNCHANGED <<args, fs, writable, clock, driver, screen, shift, images,
                   row, col, image, final, written, trace, call>>

\* lines 66-67: where the two for loops start
LoopEntry == IF args.number_rows > 0 /\ args.number_cols > 0
             THEN "navigate" ELSE "close"

\* lines 56-64
Setup ==
    /\ pc = "setup"
    /\ \/ /\ images' = [r \in 0..args.number_rows - 1 |->
                          [c \in 0..args.number_cols - 1 |-> None]]
          /\ \E s \in Screens :
                /\ screen' = s
                /\ shift' =
                     << calc_latitude_shift(
                            s[2], args.offset_top + args.offset_bottom),
                        calc_longitude_shift(
                            s[1], args.offset_left + args.offset_right) >>
          /\ row' = 0
          /\ col' = 0
          /\ pc' = LoopEntry
          /\ err' = err
       \/ /\ Raise("resolution", "TclError")
          /\ images' = [r \in 0..args.number_rows - 1 |->
                          [c \in 0..args.number_cols - 1 |-> None]]
          /\ UNCHANGED <<screen, shift, row, col>>
    /\ UNCHANGED <<args, fs, writable, clock, driver, image, final, written,
                   trace, call>>

\* lines 68-69 with row and col exchanged
CoordinateTransposed(r, c) ==
    << args.lat_start + shift[1] * c, args.long_start + shift[2] * r >>

\* lines 68-69
Coordinate(r, c) ==
    << args.lat_start + shift[1] * r, args.long_start + shift[2] * c >>

\* lines 68-89: driver.get(url)
Navigate ==
    /\ pc = "navigate"
    /\ trace' = Append(trace, [op |-> "get", cell |-> <<row, col>>,
                               at |-> Coordinate(row, col)])
    /\ \/ pc' = "sleep" /\ err' = err
       \/ Raise("navigate", "WebDriverException")
    /\ UNCHANGED <<args, fs, writable, clock, driver, screen, shift, images,
                   row, col, image, final, written, call>>

\* line 91: time.sleep(sleep_time)
Sleep ==
    /\ pc = "sleep"
    /\ \/ pc' = "capture" /\ err' = err
       \/ Raise("sleep", "KeyboardInterrupt")
    /\ UNCHANGED <<args, fs, writable, clock, driver, screen, shift, images,
                   row, col, image, final, written, trace, call>>

\* lines 92-94, 133-139: pyscreenshot.grab(bbox) raises, or returns nothing,
\* or returns the image of the box (an empty one when the box is empty)
Capture ==
    /\ pc = "capture"
    /\ LET box == BBox(screen[1], screen[2], args.offset_left,
                       args.offset_top, args.offset_right, args.offset_bottom)
       IN  /\ trace' = Append(trace, [op |-> "grab", bbox |-> box])
           /\ \/ image' = Grabbed(box) /\ pc' = "scale" /\ err' = err
              \/ image' = None /\ pc' = "scale" /\ err' = err
              \/ image' = image /\ Raise("capture", "GrabError")
    /\ UNCHANGED <<args, fs, writable, clock, driver, screen, shift, images,
                   row, col, final, written, call>>

\* lines 66-67: the next (row, col) of the two for loops
Advance ==
    IF col + 1 < args.number_cols
    THEN row' = row /\ col' = col + 1 /\ pc' = "navigate"
    ELSE IF row + 1 < args.number_rows
         THEN row' = row + 1 /\ col' = 0 /\ pc' = "navigate"
         ELSE row' = row /\ col' = col /\ pc' = "close"

\* line 96, 144-147: images[row][col] = scale_image(image, scale); None has
\* no width, and a resize from or to an empty image may be refused
Scale ==
    /\ pc = "scale"
    /\ \/ /\ image = None
          /\ Raise("scale", "AttributeError")
          /\ UNCHANGED <<images, row, col>>
       \/ /\ image # None
          /\ images' = [images EXCEPT ![row][col] =
                           scale_image(image, args.scale)]
          /\ Advance
          /\ err' = err
       \/ /\ image # None
          /\ scale_image(image, args.scale) # image
          /\ Empty(image) \/ Empty(scale_image(image, args.scale))
          /\ Raise("scale", "ValueError")
          /\ UNCHANGED <<images, row, col>>
    /\ UNCHANGED <<args, fs, writable, clock, driver, screen, shift, image,
                   final, written, trace, call>>

\* line 98: driver.close()
Close ==
    /\ pc = "close"
    /\ \/ driver' = "closed" /\ pc' = "quit" /\ err' = err
       \/ driver' = driver /\ Raise("close", "WebDriverException")
    /\ UNCHANGED <<args, fs, writable, clock, screen, shift, images,
                   row, col, image, final, written, trace, call>>

\* line 99: driver.quit()
Quit ==
    /\ pc = "quit"
    /\ \/ driver' = "quit" /\ pc' = "stitch" /\ err' = err
       \/ driver' = driver /\ Raise("quit", "WebDriverException")
    /\ UNCHANGED <<args, fs, writable, clock, screen, shift, images,
                   row, col, image, final, written, trace, call>>

\* no images[0][0] (IndexError) or a None in the grid (AttributeError)
Complete(grid) ==
    /\ DOMAIN grid # {}
    /\ DOMAIN grid[0] # {}
    /\ \A r \in DOMAIN grid : \A c \in DOMAIN grid[r] : grid[r][c] # None

\* line 102: final = combine_images(images)
Stitch ==
    /\ pc = "stitch"
    /\ \/ /\ Complete(images)
          /\ final' = combine_images(images)
          /\ pc' = "save"
          /\ err' = err
       \/ /\ ~Complete(images)
          /\ final' = final
          /\ Raise("stitch", "AttributeError")
       \/ final' = final /\ Raise("stitch", "MemoryError")
    /\ UNCHANGED <<args, fs, writable, clock, driver, screen, shift, images,
                   row, col, image, written, trace, call>>

\* lines 103-105
SavePath == IF ~Truthy(args.outfile) THEN Synthesized(clock) ELSE args.outfile

\* line 106: final.save(outfile) opens the file for writing, then encodes
Save ==
    /\ pc = "save"
    /\ IF Dirname(SavePath) \notin writable
       THEN Raise("save", "PermissionError") /\ written' = written
       ELSE \/ /\ written' = {[path |-> SavePath,
                               overwrote |-> SavePath \in fs,
                               complete |-> TRUE]}
               /\ pc' = "done"
               /\ err' = err
            \/ /\ Raise("save", "OSError")
               /\ written' \in {{}, {[path |-> SavePath,
                                      overwrote |-> SavePath \in fs,
                                      complete |-> FALSE]}}
    /\ UNCHANGED <<args, fs, writable, clock, driver, screen, shift, images,
                   row, col, image, final, trace, call>>

Next ==
    \/ Validate \/ Launch \/ Maximize \/ Setup \/ Navigate \/ Sleep
    \/ Capture \/ Scale \/ Close \/ Quit \/ Stitch \/ Save

Spec == Init /\ [][Next]_vars

\* create_map is one sequential thread: a step that can run does run
LiveSpec == Init /\ [][Next]_vars /\ WF_vars(Next)

-----------------------------------------------------------------------------
(* The functions applied on their own *)

Idle ==
    /\ args = [outfile |-> NoPath]
    /\ fs = {}
    /\ writable = {}
    /\ clock = <<>>
    /\ driver = "none"
    /\ screen = <<0, 0>>
    /\ shift = <<0, 0>>
    /\ images = <<>>
    /\ row = 0
    /\ col = 0
    /\ image = None
    /\ final = None
    /\ written = {}
    /\ trace = <<>>
    /\ err = NoErr

TileSizes == { [width |-> w, height |-> h] : w \in 1..MaxTile, h \in 1..MaxTile }

\* a rows x cols grid of tiles of size `sz`, the one at `odd` of size `oddsz`
GridOf(rows, cols, sz, odd, oddsz) ==
    [r \in 0..rows - 1 |->
        [c \in 0..cols - 1 |-> IF <<r, c>> = odd THEN oddsz ELSE sz]]

\* complete grids, uniform or with one tile of another size
StitchGrids ==
    { GridOf(g[1], g[2], sz, odd, oddsz) :
        g \in GridChoices, sz \in TileSizes, oddsz \in TileSizes,
        odd \in (0..MaxCells - 1) \X (0..MaxCells - 1) }

Fractions == 0..OffDen - 1      \* the offsets in [0, 1)

FnCalls ==
    { [fn |-> "combine_images", images |-> g] : g \in StitchGrids }
    \cup
    { [fn |-> "screenshot", screen_width |-> w, screen_height |-> h,
       offset_left |-> l, offset_top |-> t,
       offset_right |-> r, offset_bottom |-> b] :
        w \in 1..MaxExtent, h \in 1..MaxExtent,
        l \in Fractions, t \in Fractions, r \in Fractions, b \in Fractions }
    \cup
    { [fn |-> "calc_shift", extent |-> e, larger |-> e2, hidden |-> p] :
        e \in 1..MaxExtent, e2 \in 1..MaxExtent, p \in Fractions }

FnInit ==
    /\ pc = "call"
    /\ call \in FnCalls
    /\ Idle

\* combine_images(images)
ApplyCombine ==
    /\ pc = "call"
    /\ call.fn = "combine_images"
    /\ call' = [fn |-> call.fn, images |-> call.images,
                ret |-> combine_images(call.images)]
    /\ pc' = "returned"
    /\ UNCHANGED <<args, fs, writable, clock, driver, screen, shift, images,
                   row, col, image, final, written, trace, err>>

\* the bbox of screenshot(screen_width, screen_height, offset_*)
ApplyBBox ==
    /\ pc = "call"
    /\ call.fn = "screenshot"
    /\ call' = [fn |-> call.fn,
                screen_width |-> call.screen_width,
                screen_height |-> call.screen_height,
                offset_left |-> call.offset_left,
                offset_top |-> call.offset_top,
                offset_right |-> call.offset_right,
                offset_bottom |-> call.offset_bottom,
                ret |-> BBox(call.screen_width, call.screen_height,
                             call.offset_left, call.offset_top,
                             call.offset_right, call.offset_bottom)]
    /\ pc' = "returned"
    /\ UNCHANGED <<args, fs, writable, clock, driver, screen, shift, images,
                   row, col, image, final, written, trace, err>>

\* calc_latitude_shift and calc_longitude_shift at two screen extents
ApplyShift ==
    /\ pc = "call"
    /\ call.fn = "calc_shift"
    /\ call' = [fn |-> call.fn, extent |-> call.extent,
                larger |-> call.larger, hidden |-> call.hidden,
                ret |-> [lat |-> calc_latitude_shift(call.extent, call.hidden),
                         long |-> calc_longitude_shift(call.extent, call.hidden),
                         lat2 |-> calc_latitude_shift(call.larger, call.hidden),
                         long2 |-> calc_longitude_shift(call.larger, call.hidden)]]
    /\ pc' = "returned"
    /\ UNCHANGED <<args, fs, writable, clock, driver, screen, shift, images,
                   row, col, image, final, written, trace, err>>

FnNext == ApplyCombine \/ ApplyBBox \/ ApplyShift

FnSpec == FnInit /\ [][FnNext]_vars

-----------------------------------------------------------------------------
(* Properties *)

Ended == pc \in {"done", "failed"}

\* the two for loops have run to their end
LoopDone ==
    \/ pc \in {"close", "quit", "stitch", "save", "done"}
    \/ pc = "failed" /\ err.stage \in {"close", "quit", "stitch", "save"}

NumCells == args.number_rows * args.number_cols

\* C1: once the browser was launched, a run that has ended, normally or by
\* a failure at any step, has quit the browser.
C1_BrowserReleasedOnExit ==
    (Ended /\ driver # "none") => driver = "quit"

\* a path that names an existing file, or lies in a directory that is not
\* writable, or does not end in .png in any mix of cases
InvalidOutputPath(path) ==
    \/ path \in fs
    \/ Dirname(path) \notin writable
    \/ Len(path) < 4
    \/ path[Len(path) - 3] # "."
    \/ path[Len(path) - 2] \notin {"p", "P"}
    \/ path[Len(path) - 1] \notin {"n", "N"}
    \/ path[Len(path)] \notin {"g", "G"}

\* C2: with an outfile given that is invalid, create_map ends with the
\* assertion failure of lines 48-50 and the browser is never launched,
\* nothing is navigated to, captured or written.
C2_InvalidOutfileFailsFast ==
    (Truthy(args.outfile) /\ InvalidOutputPath(args.outfile)) =>
        /\ pc \in {"validate", "failed"}
        /\ pc = "failed" => err = [stage |-> "validate",
                                   kind |-> "AssertionError"]
        /\ driver = "none"
        /\ trace = <<>>
        /\ written = {}

C2_Witness ==
    /\ pc = "failed"
    /\ err.stage = "validate"
    /\ args.outfile \in fs
    /\ Dirname(args.outfile) \in writable

\* the calls made so far are get, grab, get, grab, ...; the k-th get is for
\* cell (k div cols, k mod cols) at start + (row*latShift, col*longShift);
\* a tile is stored only after its cell's grab; once the loops are over
\* there were rows*cols gets and every tile is stored
C3_GridOrder ==
    /\ \A i \in 1..Len(trace) :
          trace[i].op = (IF i % 2 = 1 THEN "get" ELSE "grab")
    /\ \A i \in 1..Len(trace) :
          i % 2 = 1 =>
             LET k == (i - 1) \div 2
                 r == k \div args.number_cols
                 c == k % args.number_cols
             IN  /\ k < NumCells
                 /\ trace[i].cell = <<r, c>>
                 /\ trace[i].at = << args.lat_start + r * shift[1],
                                     args.long_start + c * shift[2] >>
    /\ \A r \in DOMAIN images : \A c \in DOMAIN images[r] :
          images[r][c] # None =>
             2 * (r * args.number_cols + c + 1) <= Len(trace)
    /\ LoopDone =>
          /\ Len(trace) = 2 * NumCells
          /\ DOMAIN images = 0..args.number_rows - 1
          /\ \A r \in DOMAIN images :
                /\ DOMAIN images[r] = 0..args.number_cols - 1
                /\ \A c \in DOMAIN images[r] : images[r][c] # None

\* C3: the grid loop navigates in row-major order, one get and then one
\* grab per cell, and every run in which no step fails gets to the end of
\* the loops, with rows*cols navigations made and a tile at every cell.
C3_RowMajorGrid ==
    /\ []C3_GridOrder
    /\ <>(LoopDone \/ pc = "failed")

C3_Witness ==
    /\ pc = "close"
    /\ args.number_rows = 2
    /\ args.number_cols = 3
    /\ Len(trace) = 12
    /\ trace[9].at = << args.lat_start + shift[1],
                        args.long_start + shift[2] >>

\* C4: a run in which a step before the save failed has written nothing,
\* and a file is written only when every cell was navigated to and
\* captured, every tile is stored and combine_images has returned.
C4_NoPartialOutput ==
    /\ (err # NoErr /\ err.stage # "save") => written = {}
    /\ written # {} =>
          /\ Len(trace) = 2 * NumCells
          /\ \A r \in 0..args.number_rows - 1 :
                \A c \in 0..args.number_cols - 1 : images[r][c] # None
          /\ final # None
          /\ driver = "quit"

C4_Witness ==
    /\ pc = "failed"
    /\ err.stage = "capture"
    /\ row = 1
    /\ images[0][0] # None
    /\ written = {}

\* C8: a grab of a degenerate box is the last call of the run, and the run
\* stops there: no later cell is navigated to and the grid is not stitched.
C8_CaptureFailureAborts ==
    \A i \in 1..Len(trace) :
        (trace[i].op = "grab" /\ Degenerate(trace[i].bbox)) =>
            /\ i = Len(trace)
            /\ pc \in {"scale", "failed"}

\* C9: every file written was, when create_map was called, a path that did
\* not exist, in a writable directory, ending in .png, the synthesized
\* testimg-<timestamp>.png included; no existing file is overwritten.
C9_SavedPathValidated ==
    \A w \in written :
        /\ ~InvalidOutputPath(w.path)
        /\ ~w.overwrote

Returned(fn) == pc = "returned" /\ call.fn = fn

Uniform(grid) ==
    \A r \in DOMAIN grid : \A c \in DOMAIN grid[r] : grid[r][c] = grid[0][0]

\* C5: combine_images on a grid with a tile whose size differs from that
\* of tile [0][0] raises DimensionMismatch and returns no image.
C5_MismatchRejected ==
    (Returned("combine_images") /\ ~Uniform(call.images)) =>
        call.ret = [raised |-> "DimensionMismatch"]

\* C6: on a grid of tiles of one size w x h, combine_images returns a
\* canvas of cols*w by rows*h pixels, and the pixels showing tile
\* (row, col) are exactly the w x h rectangle at (col*w, row*h), each
\* showing the tile's pixel at its place in the rectangle; so the
\* rectangles are disjoint and no pixel of the canvas is left blank.
C6_ExactTiling ==
    (Returned("combine_images") /\ Uniform(call.images)) =>
        LET w == call.images[0][0].width
            h == call.images[0][0].height
            rows == Rows(call.images)
            cols == Cols(call.images)
            out == call.ret
        IN  /\ out.width = cols * w
            /\ out.height = rows * h
            /\ DOMAIN out.px = (0..cols * w - 1) \X (0..rows * h - 1)
            /\ \A r \in 0..rows - 1 : \A c \in 0..cols - 1 :
                  {p \in DOMAIN out.px : out.px[p].r = r /\ out.px[p].c = c}
                  = (c * w..c * w + w - 1) \X (r * h..r * h + h - 1)
            /\ \A p \in DOMAIN out.px :
                  /\ out.px[p] # Blank
                  /\ out.px[p].x = p[1] - out.px[p].c * w
                  /\ out.px[p].y = p[2] - out.px[p].r * h

C6_Witness ==
    /\ Returned("combine_images")
    /\ Uniform(call.images)
    /\ Rows(call.images) = 2
    /\ Cols(call.images) = 3
    /\ call.images[0][0] = [width |-> 2, height |-> 1]
    /\ call.ret.px[<<4, 1>>] = [r |-> 1, c |-> 2, x |-> 0, y |-> 0]

\* offsets in [0,1) with left + right < 1 and top + bottom < 1
ValidOffsets(c) ==
    /\ c.offset_left + c.offset_right < OffDen
    /\ c.offset_top + c.offset_bottom < OffDen

\* C7: for valid offsets the box of screenshot has x1 < x2 and y1 < y2.
C7_BoxNonDegenerate ==
    (Returned("screenshot") /\ ValidOffsets(call)) =>
        /\ call.ret[1] < call.ret[3]
        /\ call.ret[2] < call.ret[4]

\* C7 as amended: for valid offsets the box has x1 <= x2 and y1 <= y2, and
\* x1 < x2 when (1 - left - right) * W >= 1, y1 < y2 when
\* (1 - top - bottom) * H >= 1.
C7_BoxOrdered ==
    (Returned("screenshot") /\ ValidOffsets(call)) =>
        /\ call.ret[1] <= call.ret[3]
        /\ call.ret[2] <= call.ret[4]
        /\ (OffDen - call.offset_left - call.offset_right)
               * call.screen_width >= OffDen
             => call.ret[1] < call.ret[3]
        /\ (OffDen - call.offset_top - call.offset_bottom)
               * call.screen_height >= OffDen
             => call.ret[2] < call.ret[4]

C7_Witness ==
    /\ Returned("screenshot")
    /\ ValidOffsets(call)
    /\ call.offset_left > call.offset_right
    /\ call.offset_right > 0
    /\ call.screen_width = 5
    /\ call.ret[1] + 1 = call.ret[3]
    /\ call.ret[2] = call.ret[4]

\* C10: for a screen extent > 0 and a hidden fraction in [0,1) the latitude
\* shift is < 0 and the longitude shift > 0, and at a larger extent the
\* latitude shift is smaller and the longitude shift larger.
C10_ShiftSigns ==
    Returned("calc_shift") =>
        /\ call.ret.lat < 0
        /\ call.ret.long > 0
        /\ call.extent < call.larger =>
              /\ call.ret.lat2 < call.ret.lat
              /\ call.ret.long2 > call.ret.long

C10_Witness ==
    /\ Returned("calc_shift")
    /\ call.extent = 2
    /\ call.larger = 3
    /\ call.hidden = OffDen - 1
    /\ call.ret.lat = -(2 * 2051 * 21)

====
